---- MODULE Spec2Model ----
(***************************************************************************)
(* gitcache: FetchLatest (src/common.go) and the HTTP handler that calls   *)
(* it (src/cmd/gitcache/main.go).  Requests run in concurrent execution    *)
(* contexts and share one cache root on disk; nothing in the code          *)
(* serialises them.                                                        *)
(***************************************************************************)
EXTENDS Integers, Sequences, FiniteSets, TLC

\* ---------------------------------------------------------------- bounds
\* Total number of environment faults over a behaviour: a filesystem call, a
\* process start, a network fetch or a sink write that fails although the state
\* of the cache allows it to succeed.
MaxFaults == 1

\* ------------------------------------------------------------ environment
\* Concurrent execution contexts (net/http runs one goroutine per connection).
Reqs == {"p", "q"}

\* Repository identifiers a caller may name ("" = field absent).
Repos == {"r1", "r2"}

\* The commits of the upstream branch, oldest first; the last one is its tip.
History == <<"c1">>

\* A commit id that no upstream ever contains.
Unknown == "cX"

Commits == {History[i] : i \in 1..Len(History)} \cup {Unknown}

\* Modification times git archive stamps on a tree export (the wall clock).
Times == {7, 9}

\* Mutant: every identifier is given the same directory name.
Sha256HexConstant(repo) == "5f1a"

\* hex(sha256(repo)): a fixed-length digest, injective on the model's repos.
Sha256Hex(repo) ==
    CASE repo = "r1" -> "5f1a"
      [] repo = "r2" -> "c03e"
      [] OTHER       -> "e3b0"

Keys == {Sha256Hex(x) : x \in Repos}

\* ------------------------------------------------------------- tar items
Item(k, name, size, mtime, data, payload) ==
    [k |-> k, name |-> name, size |-> size, mtime |-> mtime, data |-> data,
     payload |-> payload]

Entry(name, size, mtime, data) == Item("entry", name, size, mtime, data, <<>>)

HeaderBlock(h) == Item("hdr", h.name, h.size, h.mtime, <<>>, <<>>)
DataBlock(d)   == Item("data", "", Len(d), 0, d, <<>>)
Trailer        == Item("end", "", 0, 0, <<>>, <<>>)
Hole           == Item("hole", "", 0, 0, <<>>, <<>>)
GzipStream(p)  == Item("gzip", "", 0, 0, <<>>, p)
ErrorBody(e)   == Item("text", e, 0, 0, <<>>, <<>>)

\* What `git archive --format tar <commit>:<tree>` prints for a commit the
\* mirror holds; <<>> with a non-zero exit for a path the commit lacks.
TreeEntries(commit, tree, t) ==
    LET v == IF commit = "c1" THEN 1 ELSE 2
    IN  CASE tree = ""  -> << Entry("a", 1, t, <<v>>), Entry("d/b", 2, t, <<v, 3>>) >>
          [] tree = "d" -> << Entry("b", 2, t, <<v, 3>>) >>
          [] OTHER      -> << >>

ValidTree(tree) == tree \in {"", "d"}

\* ---------------------------------------------------------------- requests
\* The named string fields of a request; an absent field is "".
Request(repo, branch, commit, tree, format, outputDir, via) ==
    [repo |-> repo, branch |-> branch, commit |-> commit, tree |-> tree,
     format |-> format, outputDir |-> outputDir, via |-> via]

NoRequest == Request("", "", "", "", "", "", "call")

\* Requests that pass validation: the handler always passes outputDir "",
\* a direct caller (the command line, a library user) may name a directory.
ValidRequests ==
    { Request("r1", "main", c, t, "tar", "", "http") :
        c \in {""} \cup Commits, t \in {"", "x"} }
    \cup { Request("r1", "main", c, "", "tgz", "", "http") : c \in {"", "c1"} }
    \cup { Request("r1", "main", c, "", f, "out", "call") :
              c \in {"", "c1"}, f \in {"tar", "tgz"} }
    \cup { Request("r2", "main", "", "", "tar", "", "http") }

\* Requests with a missing or unsupported field.
InvalidRequests ==
    { Request("", "main", "c1", "", "tar", "out", "call"),
      Request("r1", "", "c1", "", "tar", "out", "call"),
      Request("r1", "main", "c1", "", "", "out", "call"),
      Request("r1", "main", "c1", "", "zip", "out", "call"),
      Request("", "", "c1", "", "zip", "", "http") }

Requests == ValidRequests \cup InvalidRequests

\* The requests in some fixed order.
RECURSIVE Enumerate(_)
Enumerate(S) ==
    IF S = {} THEN <<>> ELSE LET x == CHOOSE y \in S : TRUE IN <<x>> \o Enumerate(S \ {x})

RequestList == Enumerate(Requests)

Rank(q) == CHOOSE i \in 1..Len(RequestList) : RequestList[i] = q

\* ------------------------------------------------------------------ state
VARIABLES
    ctx,        \* per execution context: the frame of FetchLatest and its sink
    ws,         \* per cache key: "absent", "dir" (created, not initialised), "ready"
    mirror,     \* per cache key: the commits the bare mirror holds
    ref,        \* per cache key: the commit the local branch ref points at, or ""
    files,      \* the output directory: file name -> content
    faults      \* number of environment faults so far

vars == <<ctx, ws, mirror, ref, files, faults>>

\* The frame of a request that has not started.
Idle ==
    [pc          |-> "idle",
     q           |-> NoRequest,
     gd          |-> "",        \* workspace directory (cache key)
     commit      |-> "",        \* the commit variable of FetchLatest
     haveFetched |-> FALSE,
     attempt     |-> 0,         \* sendDownstream invocations started
     err         |-> "nil",     \* what FetchLatest returns
     sdErr       |-> "nil",     \* what the running sendDownstream returns
     fpath       |-> <<>>,      \* the output file, when one was created
     off         |-> 0,         \* write offset of the output file handle
     gzOpen      |-> FALSE,     \* a gzip.Writer is interposed
     gz          |-> <<>>,      \* what the gzip.Writer has been given
     tw          |-> "none",    \* tar.Writer: none, ok, err (sticky write error), short
     procOut     |-> <<>>,      \* unread output of the archive subprocess
     procExit    |-> 0,         \* its exit status
     proc        |-> "none",    \* none, running, reaped
     hdr         |-> Trailer,   \* the header between tarIn.Next and io.CopyN
     out         |-> <<>>,      \* what the caller-supplied stream received
     status      |-> 0,         \* HTTP status line sent (0 = none yet)
     announced   |-> <<>>,      \* file names written to os.Stdout
     trace       |-> <<>>,      \* filesystem calls and subprocesses, in order
     written     |-> <<>>,      \* tar blocks each sendDownstream wrote, per attempt
     had         |-> <<>>,      \* per attempt: the mirror held the commit at the start
     sent        |-> <<>>,      \* what each sendDownstream returned
     fetched     |-> <<>>,      \* what each fetchUpstream returned
     touched     |-> {},        \* sinks that received bytes from this request
     sinkFail    |-> FALSE,     \* some write or close on the sink path failed
     phase       |-> "none"]    \* the phase whose failure ended the request

Init ==
    /\ ctx = [r \in Reqs |-> Idle]
    /\ ws = [k \in Keys |-> "absent"]
    /\ mirror = [k \in Keys |-> {}]
    /\ ref = [k \in Keys |-> ""]
    /\ files = <<>>
    /\ faults = 0

\* ----------------------------------------------------------------- helpers
Set(r, f) == ctx' = [ctx EXCEPT ![r] = f]

\* An operation of the environment succeeds (ok) or fails at the cost of one fault.
Env(ok) ==
    /\ ~ok => faults < MaxFaults
    /\ faults' = IF ok THEN faults ELSE faults + 1

Log(c, op) == [c EXCEPT !.trace = Append(@, op)]

\* FetchLatest returns e before any defer is registered (lines 148-171).
ReturnEarly(c, e, ph) == [c EXCEPT !.pc = "ret", !.err = e, !.phase = ph]

\* ---------------------------------------------------------------- the call
\* A caller (the handler, or main / a library user) invokes FetchLatest in a
\* fresh context. The contexts are interchangeable: of two requests in flight
\* together, context "p" is taken to run the one that comes first in RequestList.
Call(r) ==
    /\ ctx[r].pc = "idle"
    /\ \E q \in Requests :
         /\ \A o \in Reqs \ {r} :
              ctx[o].pc \notin {"idle", "closed"} =>
                 IF r = "p" THEN Rank(q) <= Rank(ctx[o].q) ELSE Rank(ctx[o].q) <= Rank(q)
         /\ Set(r, [Idle EXCEPT !.pc = "preflight", !.q = q])
    /\ UNCHANGED <<ws, mirror, ref, files, faults>>

\* Mutant: the check that the format is one of tar and tgz is missing.
ValidationErrorAnyFormat(q) ==
    CASE Len(q.repo) = 0   -> "Must specify repo"
      [] Len(q.branch) = 0 -> "Must specify branch"
      [] Len(q.format) = 0 -> "Must specify format"
      [] OTHER -> "nil"

\* preflightAndInit, lines 110-122: the first failing check decides.
ValidationError(q) ==
    CASE Len(q.repo) = 0   -> "Must specify repo"
      [] Len(q.branch) = 0 -> "Must specify branch"
      [] Len(q.format) = 0 -> "Must specify format"
      [] q.format # "tar" /\ q.format # "tgz" -> "Format must be tar or tgz"
      [] OTHER -> "nil"

ValidationErrors ==
    {"Must specify repo", "Must specify branch", "Must specify format",
     "Format must be tar or tgz"}

\* FetchLatest line 148 with preflightAndInit lines 110-122: the field checks.
\* No file or process is touched before they pass.
Preflight(r) ==
    LET c == ctx[r]
        e == ValidationError(c.q)
    IN  /\ c.pc = "preflight"
        /\ Set(r, IF e # "nil" THEN ReturnEarly(c, e, "validation")
                  ELSE [c EXCEPT !.pc = "stat", !.gd = Sha256Hex(c.q.repo)])
        /\ UNCHANGED <<ws, mirror, ref, files, faults>>

\* Mutant: the tip is resolved (and so fetched) even when a commit was supplied.
AfterPreflightAlwaysResolve(c) ==
    [c EXCEPT !.commit = c.q.commit, !.pc = "headfetch"]

\* Mutant: the sink is opened before the tip is resolved.
AfterPreflightOpenFirst(c) ==
    [c EXCEPT !.commit = c.q.commit, !.pc = "open"]

\* Where FetchLatest continues once preflightAndInit returned gd (line 155).
AfterPreflight(c) ==
    [c EXCEPT !.commit = c.q.commit,
              !.pc = IF Len(c.q.commit) = 0 THEN "headfetch" ELSE "open"]

\* preflightAndInit lines 127-129 and 138-143: os.Stat(gd).
Stat(r) ==
    LET c == Log(ctx[r], "stat")
    IN  /\ ctx[r].pc = "stat"
        /\ \E ok \in BOOLEAN :
             /\ Env(ok)
             /\ Set(r, IF ~ok THEN ReturnEarly(c, "stat: error", "workspace")
                       ELSE IF ws[c.gd] = "absent" THEN [c EXCEPT !.pc = "mkdir"]
                       ELSE AfterPreflight(c))
        /\ UNCHANGED <<ws, mirror, ref, files>>

\* preflightAndInit lines 130-133: os.MkdirAll(gd); an existing directory is fine.
MkdirAll(r) ==
    LET c == Log(ctx[r], "mkdir")
    IN  /\ ctx[r].pc = "mkdir"
        /\ \E ok \in BOOLEAN :
             /\ Env(ok)
             /\ Set(r, IF ok THEN [c EXCEPT !.pc = "init"]
                       ELSE ReturnEarly(c, "mkdir: error", "workspace"))
             /\ ws' = IF ok /\ ws[c.gd] = "absent" THEN [ws EXCEPT ![c.gd] = "dir"] ELSE ws
        /\ UNCHANGED <<mirror, ref, files>>

\* preflightAndInit line 134: `git init --bare` is started ...
InitStart(r) ==
    /\ ctx[r].pc = "init"
    /\ Set(r, [Log(ctx[r], "init") EXCEPT !.pc = "initwait"])
    /\ UNCHANGED <<ws, mirror, ref, files, faults>>

\* ... and Run returns (lines 134-137). A failed init leaves the directory behind.
InitEnd(r) ==
    LET c == ctx[r]
    IN  /\ c.pc = "initwait"
        /\ \E ok \in BOOLEAN :
             /\ Env(ok)
             /\ Set(r, IF ok THEN AfterPreflight(c)
                       ELSE ReturnEarly(c, "exit status 128", "workspace"))
             /\ ws' = IF ok /\ ws[c.gd] # "absent" THEN [ws EXCEPT ![c.gd] = "ready"] ELSE ws
        /\ UNCHANGED <<mirror, ref, files>>

\* ------------------------------------------------------------ fetchUpstream
\* The deferred closes FetchLatest has registered when it returns with c.
LatePc(c) ==
    IF c.gzOpen THEN "gzclose" ELSE IF c.fpath # <<>> THEN "fclose" ELSE "ret"

Return(c, e, ph) ==
    [c EXCEPT !.pc = LatePc(c), !.err = e, !.phase = IF e = "nil" THEN "none" ELSE ph]

\* fetchUpstream line 44: `git fetch repo +branch:branch` is started; the caller is
\* getHeadCommit (line 95) or the retry of FetchLatest (line 195).
FetchStart(r) ==
    LET c == ctx[r]
    IN  /\ c.pc \in {"headfetch", "retryfetch"}
        /\ Set(r, [Log(c, "fetch") EXCEPT
                     !.pc = IF c.pc = "headfetch" THEN "headfetching" ELSE "retryfetching"])
        /\ UNCHANGED <<ws, mirror, ref, files, faults>>

\* Mutant: a fetch moves the local ref and brings no commit into the mirror.
FetchedNothing(x) == {}

\* The commits a fetch of the upstream branch brings into the mirror.
Fetched(x) == {History[i] : i \in 1..Len(History)}

\* The upstream branch tip.
Tip(x) == History[Len(History)]

\* An operation that cannot succeed in the present state fails without a fault.
EnvIf(possible, ok) ==
    IF possible THEN Env(ok) ELSE ~ok /\ UNCHANGED faults

\* Mutant: the retry goes on to the second archive attempt whatever the fetch
\* returned.
AfterFetchUnchecked(c, ok) ==
    IF ok \/ c.pc = "retryfetching"
    THEN [c EXCEPT !.pc = IF c.pc = "headfetching" THEN "revparse" ELSE "archive"]
    ELSE ReturnEarly(c, "exit status 128", "fetch")

\* Where the caller of fetchUpstream continues: getHeadCommit lines 95-100 (rev-parse,
\* or return the error) and FetchLatest lines 195-200 (second attempt, or return
\* the error through the deferred closes).
AfterFetch(c, ok) ==
    IF ok
    THEN [c EXCEPT !.pc = IF c.pc = "headfetching" THEN "revparse" ELSE "archive"]
    ELSE IF c.pc = "headfetching"
         THEN ReturnEarly(c, "exit status 128", "fetch")
         ELSE Return(c, "exit status 128", "fetch")

\* fetchUpstream returns. It succeeds only against an initialised mirror, and
\* then the mirror holds the upstream branch and the local ref is forced to its tip.
FetchEnd(r) ==
    LET b == ctx[r]
    IN  /\ b.pc \in {"headfetching", "retryfetching"}
        /\ \E ok \in BOOLEAN :
           LET c == [b EXCEPT !.fetched = Append(@, IF ok THEN "nil" ELSE "exit status 128")]
           IN
             /\ EnvIf(ws[c.gd] = "ready", ok)
             /\ Set(r, AfterFetch(c, ok))
             /\ mirror' = IF ok THEN [mirror EXCEPT ![c.gd] = @ \cup Fetched(c.q.repo)]
                          ELSE mirror
             /\ ref' = IF ok THEN [ref EXCEPT ![c.gd] = Tip(c.q.repo)] ELSE ref
        /\ UNCHANGED <<ws, files>>

\* ------------------------------------------------------------ getHeadCommit
\* What `git rev-parse branch` prints: the commit id and a newline.
RevParseOutput(commit) == <<commit, "\n">>

IsSpace(ch) == ch \in {" ", "\n", "\t", "\r"}

RECURSIVE TrimLeft(_)
TrimLeft(s) == IF s # <<>> /\ IsSpace(Head(s)) THEN TrimLeft(Tail(s)) ELSE s

RECURSIVE TrimRight(_)
TrimRight(s) ==
    IF s # <<>> /\ IsSpace(s[Len(s)]) THEN TrimRight(SubSeq(s, 1, Len(s) - 1)) ELSE s

\* strings.TrimSpace(string(commitHex)), line 105
TrimSpace(s) == TrimRight(TrimLeft(s))

\* The text of a one-token output.
Text(s) == IF Len(s) = 1 THEN s[1] ELSE ""

\* Mutant: haveFetched is not recorded.
GotHeadUnrecorded(c, commit) ==
    [c EXCEPT !.commit = commit, !.pc = "open"]

\* FetchLatest lines 156-160: getHeadCommit returned commit.
GotHead(c, commit) ==
    [c EXCEPT !.commit = commit, !.haveFetched = TRUE, !.pc = "open"]

\* getHeadCommit lines 100-105: `git rev-parse branch`, trimmed.
RevParse(r) ==
    LET c == Log(ctx[r], "revparse")
    IN  /\ ctx[r].pc = "revparse"
        /\ \E ok \in BOOLEAN :
             /\ EnvIf(ws[c.gd] = "ready" /\ ref[c.gd] # "", ok)
             /\ Set(r, IF ok
                       THEN GotHead(c, Text(TrimSpace(RevParseOutput(ref[c.gd]))))
                       ELSE ReturnEarly(c, "exit status 128", "fetch"))
        /\ UNCHANGED <<ws, mirror, ref, files>>

\* ------------------------------------------------------------------- sinks
\* filepath.Join(outputDir, commit+"."+format), line 167
FilePath(outputDir, commit, format) == <<outputDir, commit, format>>

\* Mutant: the caller's stream is always the sink.
UseStreamAlways(q) == TRUE

\* FetchLatest line 164: the caller's stream is the sink iff outputDir is "".
UseStream(q) == Len(q.outputDir) = 0

\* A write of one block at offset off of a file (a hole is left after a truncation
\* by another handle).
WriteAt(content, off, item) ==
    LET n == IF Len(content) > off + 1 THEN Len(content) ELSE off + 1
    IN  [i \in 1..n |-> IF i = off + 1 THEN item
                        ELSE IF i <= Len(content) THEN content[i] ELSE Hole]

\* One Write on the sink FetchLatest chose (lines 163-175): the frame afterwards.
SinkPut(c, item, ok) ==
    IF UseStream(c.q)
    THEN [c EXCEPT !.out = IF ok THEN Append(@, item) ELSE @,
                   !.status = IF c.q.via = "http" /\ @ = 0 THEN 200 ELSE @,
                   !.touched = IF ok THEN @ \cup {<<"stream">>} ELSE @,
                   !.sinkFail = @ \/ ~ok]
    ELSE [c EXCEPT !.off = IF ok THEN @ + 1 ELSE @,
                   !.touched = IF ok THEN @ \cup {c.fpath} ELSE @,
                   !.sinkFail = @ \/ ~ok]

\* ... and the output directory afterwards.
FilesPut(c, item, ok) ==
    IF ~UseStream(c.q) /\ ok /\ c.fpath \in DOMAIN files
    THEN [files EXCEPT ![c.fpath] = WriteAt(@, c.off, item)]
    ELSE files

\* One Write of the tar.Writer on `out`: into the gzip.Writer when one is interposed
\* (it buffers until Close), else onto the sink.
TarPut(c, item, ok) ==
    LET d == IF c.gzOpen THEN [c EXCEPT !.gz = Append(@, item)] ELSE SinkPut(c, item, ok)
    IN  [d EXCEPT !.written[c.attempt] = IF ok THEN Append(@, item) ELSE @]

\* A Write into the gzip buffer cannot fail; one onto the sink can.
WriteEnv(c, ok) == IF c.gzOpen THEN ok /\ UNCHANGED faults ELSE Env(ok)

TarFiles(c, item, ok) == IF c.gzOpen THEN files ELSE FilesPut(c, item, ok)

\* FetchLatest lines 163-182: choose the sink, create the file, interpose gzip.
OpenSink(r) ==
    LET c == ctx[r]
        fp == FilePath(c.q.outputDir, c.commit, c.q.format)
        gzip == c.q.format = "tgz"
    IN  /\ c.pc = "open"
        /\ IF UseStream(c.q)
           THEN /\ Set(r, [c EXCEPT !.pc = "archive", !.gzOpen = gzip])
                /\ UNCHANGED <<files, faults>>
           ELSE \E ok \in BOOLEAN :
                  LET d == [Log(c, "create") EXCEPT !.announced = Append(@, fp)]
                  IN  /\ Env(ok)
                      /\ Set(r, IF ok THEN [d EXCEPT !.pc = "archive", !.fpath = fp,
                                                     !.gzOpen = gzip]
                                ELSE ReturnEarly(d, "open: error", "stream"))
                      /\ files' = IF ok
                                  THEN [f \in DOMAIN files \cup {fp} |->
                                          IF f = fp THEN <<>> ELSE files[f]]
                                  ELSE files
        /\ UNCHANGED <<ws, mirror, ref>>

\* ----------------------------------------------------------- sendDownstream
\* time.Unix(0, 0), line 75
Epoch == 0

\* Mutant: the modification time is left as git archive wrote it.
NormaliseNothing(h) == h

\* line 75: header.ModTime = time.Unix(0, 0)
Normalise(h) == [h EXCEPT !.mtime = Epoch]

\* The output of an archive subprocess that dies inside its first entry.
Truncated(es) == << [es[1] EXCEPT !.data = SubSeq(@, 1, Len(@) - 1)] >>

\* Mutant: a failed attempt is retried after a fetch every time, not once.
AfterSendRetryAgain(c, e) ==
    IF e = "nil" THEN Return(c, "nil", "none")
    ELSE IF c.haveFetched
         THEN Return(c, e, IF e = "exit status 128" THEN "archive" ELSE "stream")
         ELSE [c EXCEPT !.pc = "retryfetch"]

\* Mutant: haveFetched is not consulted before the retry.
AfterSendRetryAlways(c, e) ==
    IF e = "nil" THEN Return(c, "nil", "none")
    ELSE IF c.attempt = 2
         THEN Return(c, e, IF e = "exit status 128" THEN "archive" ELSE "stream")
         ELSE [c EXCEPT !.pc = "retryfetch"]

\* FetchLatest lines 186-200, once a sendDownstream returned e: return or retry.
AfterSend(c, e) ==
    IF e = "nil" THEN Return(c, "nil", "none")
    ELSE IF c.haveFetched \/ c.attempt = 2
         THEN Return(c, e, IF e = "exit status 128" THEN "archive" ELSE "stream")
         ELSE [c EXCEPT !.pc = "retryfetch"]

\* sendDownstream returns e to FetchLatest.
Sent(c, e) == AfterSend([c EXCEPT !.sent = Append(@, e)], e)

\* Mutant: the exit status of the archive subprocess is not looked at.
WaitIgnoringExit(c) ==
    [c EXCEPT !.pc = "tarclose", !.proc = "reaped", !.sdErr = "nil"]

\* line 67: return cmd.Wait(): the process is reaped, a non-zero exit is the error.
Wait(c) ==
    [c EXCEPT !.pc = "tarclose", !.proc = "reaped",
              !.sdErr = IF c.procExit = 0 THEN "nil" ELSE "exit status 128"]

\* lines 64-75: tarIn.Next(). At the end of the output wait for the process; else
\* reset the modification time of the header read. (These steps touch nothing
\* but the frame and the request's own process.)
TarNext(c) ==
    IF c.procOut = <<>> THEN Wait(c)
    ELSE [c EXCEPT !.pc = "writehdr", !.hdr = Normalise(HeaderBlock(Head(c.procOut)))]

\* sendDownstream lines 48-61: start `git archive`; it exports the tree only for a
\* commit the mirror holds and a path the commit has.
ArchiveStart(r) ==
    LET b == ctx[r]
        held == ws[b.gd] = "ready" /\ b.commit \in mirror[b.gd]
        present == held /\ ValidTree(b.q.tree)
        c == [Log(b, "archive") EXCEPT
                !.attempt = @ + 1, !.written = Append(@, <<>>), !.had = Append(@, held),
                !.sdErr = "nil", !.tw = "none", !.procOut = <<>>, !.procExit = 0,
                !.proc = "none"]
    IN  /\ ctx[r].pc = "archive"
        /\ \E ok \in BOOLEAN, cut \in BOOLEAN, t \in Times :
             /\ cut => ok /\ present
             /\ ~(ok /\ present) => t = CHOOSE u \in Times : TRUE
             /\ Env(ok /\ ~cut)
             /\ LET es == IF ~ok \/ ~present THEN <<>>
                          ELSE IF cut THEN Truncated(TreeEntries(c.commit, c.q.tree, t))
                          ELSE TreeEntries(c.commit, c.q.tree, t)
                IN  Set(r, IF ~ok THEN Sent(c, "fork/exec error")
                           ELSE TarNext([c EXCEPT !.tw = "ok", !.proc = "running",
                                                  !.procOut = es,
                                                  !.procExit = IF present /\ ~cut THEN 0
                                                               ELSE 128]))
        /\ UNCHANGED <<ws, mirror, ref, files>>

\* lines 77-80: tarOut.WriteHeader(header)
WriteHeader(r) ==
    LET c == ctx[r]
    IN  /\ c.pc = "writehdr"
        /\ \E ok \in BOOLEAN :
             /\ WriteEnv(c, ok)
             /\ LET d == TarPut(c, c.hdr, ok)
                IN  Set(r, IF ok THEN [d EXCEPT !.pc = "copy"]
                           ELSE [d EXCEPT !.pc = "tarclose", !.tw = "err",
                                          !.sdErr = "write error"])
             /\ files' = TarFiles(c, c.hdr, ok)
        /\ UNCHANGED <<ws, mirror, ref>>

\* lines 82-90: io.CopyN(tarOut, tarIn, header.Size); fewer bytes than declared
\* is an error.
CopyN(r) ==
    LET c == ctx[r]
        data == Head(c.procOut).data
        short == Len(data) < c.hdr.size
    IN  /\ c.pc = "copy"
        /\ \E ok \in BOOLEAN :
             /\ WriteEnv(c, ok)
             /\ LET d == TarPut(c, DataBlock(data), ok)
                IN  Set(r, IF ~ok THEN [d EXCEPT !.pc = "tarclose", !.tw = "err",
                                                 !.sdErr = "write error"]
                           ELSE IF short THEN [d EXCEPT !.pc = "tarclose", !.tw = "short",
                                                        !.sdErr = "unexpected EOF"]
                           ELSE TarNext([d EXCEPT !.procOut = Tail(@)]))
             /\ files' = TarFiles(c, DataBlock(data), ok)
        /\ UNCHANGED <<ws, mirror, ref>>

\* line 61: the deferred tarOut.Close() writes the end-of-archive blocks unless the
\* writer is in error or inside an entry; its result is dropped. Then sendDownstream
\* has returned and FetchLatest goes on (lines 186-200).
TarClose(r) ==
    LET c == ctx[r]
    IN  /\ c.pc = "tarclose"
        /\ IF c.tw = "ok"
           THEN \E ok \in BOOLEAN :
                  /\ WriteEnv(c, ok)
                  /\ Set(r, Sent(TarPut(c, Trailer, ok), c.sdErr))
                  /\ files' = TarFiles(c, Trailer, ok)
           ELSE /\ Set(r, Sent(c, c.sdErr))
                /\ UNCHANGED <<files, faults>>
        /\ UNCHANGED <<ws, mirror, ref>>

\* -------------------------------------------------------- deferred closes
\* line 179: the deferred gzipper.Close() flushes the compressed stream to the
\* sink; its result is dropped.
GzipClose(r) ==
    LET c == ctx[r]
    IN  /\ c.pc = "gzclose"
        /\ \E ok \in BOOLEAN :
             /\ Env(ok)
             /\ Set(r, [SinkPut(c, GzipStream(c.gz), ok) EXCEPT
                          !.pc = IF c.fpath # <<>> THEN "fclose" ELSE "ret"])
             /\ files' = FilesPut(c, GzipStream(c.gz), ok)
        /\ UNCHANGED <<ws, mirror, ref>>

\* line 173: the deferred f.Close(); its result is dropped.
FileClose(r) ==
    LET c == ctx[r]
    IN  /\ c.pc = "fclose"
        /\ \E ok \in BOOLEAN :
             /\ Env(ok)
             /\ Set(r, [c EXCEPT !.pc = "ret", !.sinkFail = @ \/ ~ok])
        /\ UNCHANGED <<ws, mirror, ref, files>>

\* ------------------------------------------------------------- the caller
\* makeHandleFetch lines 216-219: on an error, http.Error(w, err.Error(), 400);
\* the status line is already out if the stream was written to. A direct caller
\* just receives err.
Respond(r) ==
    LET c == ctx[r]
        fail == c.q.via = "http" /\ c.err # "nil"
    IN  /\ c.pc = "ret"
        /\ Set(r, [c EXCEPT !.pc = "done",
                            !.status = IF fail /\ @ = 0 THEN 400 ELSE @,
                            !.out = IF fail THEN Append(@, ErrorBody(c.err)) ELSE @])
        /\ UNCHANGED <<ws, mirror, ref, files, faults>>

\* The caller is done with the request (net/http finishes the response once the
\* handler has returned; main exits): the context and its stream are gone.
Release(r) ==
    /\ ctx[r].pc = "done"
    /\ Set(r, [Idle EXCEPT !.pc = "closed"])
    /\ UNCHANGED <<ws, mirror, ref, files, faults>>

Next ==
    \E r \in Reqs :
         \/ Call(r)
         \/ Preflight(r)
         \/ Stat(r)
         \/ MkdirAll(r)
         \/ InitStart(r)
         \/ InitEnd(r)
         \/ FetchStart(r)
         \/ FetchEnd(r)
         \/ RevParse(r)
         \/ OpenSink(r)
         \/ ArchiveStart(r)
         \/ WriteHeader(r)
         \/ CopyN(r)
         \/ TarClose(r)
         \/ GzipClose(r)
         \/ FileClose(r)
         \/ Respond(r)
         \/ Release(r)

Spec == Init /\ [][Next]_vars

\* ------------------------------------------------------ sequential histories
\* A caller invokes FetchLatest again where an earlier request is over (main is
\* run once more; the server takes the next connection).
Again(r) ==
    /\ ctx[r].pc = "closed"
    /\ Set(r, Idle)
    /\ UNCHANGED <<ws, mirror, ref, files, faults>>

\* The context that runs the requests of a sequential history.
Main == "p"

\* One request at a time against the cache root, any number of them: each is
\* called when the one before it is over.
SeqNext ==
    \/ Next /\ \A r \in Reqs \ {Main} : ctx'[r] = ctx[r]
    \/ Again(Main)

\* A step of the running request, from the call of FetchLatest to the caller's
\* handling of its result.
Progress ==
    SeqNext /\ ctx[Main].pc \notin {"idle", "done", "closed"} /\ ctx'[Main] # ctx[Main]

\* Every filesystem call and every delegate subprocess eventually returns (they
\* all block the calling context, which then goes on), so a request that can
\* take a step eventually takes one.
SeqSpec == Init /\ [][SeqNext]_vars /\ WF_vars(Progress)

\* ================================================================== claims
Count(seq, x) == Cardinality({i \in DOMAIN seq : seq[i] = x})

Fetches(c)  == Count(c.trace, "fetch")
Archives(c) == Count(c.trace, "archive")

\* Every position of op in the trace lies after some position of an earlier op.
Before(seq, first, op) ==
    \A i \in DOMAIN seq : seq[i] = op => \E j \in 1..(i - 1) : seq[j] = first

\* FetchLatest has returned to its caller and the frame is still there.
AtReturn(c) == c.pc = "ret"

\* The request fields pass the checks of the request contract.
WellFormed(q) == q.repo # "" /\ q.branch # "" /\ q.format \in {"tar", "tgz"}

\* C1: a request that names a commit and whose first archive attempt fails runs
\* exactly one fetch; after a successful fetch exactly one more archive attempt,
\* whose result is the request's result; after a failed fetch none; never a third
\* archive attempt, never a second fetch.
C1_MissingCommitRetry ==
    \A r \in Reqs :
        LET c == ctx[r]
        IN  (c.q.commit # "" /\ Len(c.sent) >= 1 /\ c.sent[1] # "nil") =>
              /\ Fetches(c) <= 1
              /\ Archives(c) <= 2
              /\ Len(c.sent) = 2 => c.fetched = <<"nil">>
              /\ AtReturn(c) =>
                   /\ Fetches(c) = 1
                   /\ Len(c.fetched) = 1
                   /\ c.fetched[1] = "nil" =>
                        Archives(c) = 2 /\ Len(c.sent) = 2 /\ c.err = c.sent[2]
                   /\ c.fetched[1] # "nil" =>
                        Archives(c) = 1 /\ Len(c.sent) = 1 /\ c.err = c.fetched[1]

\* C1 witness: a request naming a commit failed its first archive attempt, fetched,
\* and returned the success of the second attempt.
C1_Witness ==
    \E r \in Reqs :
        /\ AtReturn(ctx[r]) /\ ctx[r].q.commit # ""
        /\ ctx[r].sent = <<"exit status 128", "nil">> /\ ctx[r].err = "nil"

\* C2: a request that names a commit and the whole tree, and whose first archive
\* attempt succeeds (as it does, absent faults, when the mirror holds the commit),
\* succeeds without any fetch.
C2_OptimisticPath ==
    \A r \in Reqs :
        LET c == ctx[r]
        IN  (c.q.commit # "" /\ c.q.tree = "" /\ Len(c.had) >= 1) =>
              /\ (c.had[1] /\ faults = 0 /\ Len(c.sent) >= 1) => c.sent[1] = "nil"
              /\ (Len(c.sent) >= 1 /\ c.sent[1] = "nil") =>
                   /\ Fetches(c) = 0
                   /\ Archives(c) = 1
                   /\ c.pc \in {"gzclose", "fclose", "ret", "done"}
                   /\ c.err = "nil"

\* C2 witness: a request for a commit the mirror already held has returned success.
C2_Witness ==
    \E r \in Reqs :
        /\ AtReturn(ctx[r]) /\ ctx[r].q.commit # "" /\ ctx[r].q.tree = ""
        /\ ctx[r].had = <<TRUE>> /\ ctx[r].sent = <<"nil">> /\ ctx[r].err = "nil"

\* C4: a request that names no commit runs exactly one fetch, before rev-parse
\* and before the archive attempt; haveFetched is then set, so a failure of the one
\* archive attempt is the request's result, with no second fetch or attempt.
C4_NoCommitPath ==
    \A r \in Reqs :
        LET c == ctx[r]
        IN  (WellFormed(c.q) /\ c.q.commit = "" /\ c.pc \notin {"idle", "closed"}) =>
              /\ Fetches(c) <= 1
              /\ Archives(c) <= 1
              /\ Before(c.trace, "fetch", "revparse")
              /\ Before(c.trace, "revparse", "archive")
              /\ Before(c.trace, "revparse", "create")
              /\ Archives(c) = 1 => c.haveFetched /\ c.fetched = <<"nil">>
              /\ (AtReturn(c) /\ Len(c.sent) = 1) => c.err = c.sent[1]
              /\ c.pc # "retryfetch" /\ c.pc # "retryfetching"

\* C4 witness: a request without a commit resolved the tip, failed its archive
\* attempt and returned that failure.
C4_Witness ==
    \E r \in Reqs :
        /\ AtReturn(ctx[r]) /\ ctx[r].q.commit = "" /\ ctx[r].commit # ""
        /\ ctx[r].sent = <<"exit status 128">> /\ ctx[r].err = "exit status 128"
        /\ ctx[r].trace = <<"stat", "fetch", "revparse", "archive">>

\* The request has returned success to its caller.
Succeeded(c) == c.pc \in {"ret", "done"} /\ WellFormed(c.q) /\ c.err = "nil"

\* C3: two successful requests for the same repository, commit, subtree and format
\* tar deliver identical bytes to their streams, in particular when one was served
\* by fetch and retry and the other on the optimistic path: the failed first
\* attempt adds no bytes to the sink. (Stated for behaviours without environment
\* faults, where every write of both requests went through.)
C3_ByteReproducible ==
    \A r1, r2 \in Reqs :
        LET c1 == ctx[r1]
            c2 == ctx[r2]
        IN  ( /\ Succeeded(c1) /\ Succeeded(c2)
              /\ AtReturn(c1) /\ ~c1.sinkFail /\ faults = 0
              /\ c1.q.repo = c2.q.repo /\ c1.commit = c2.commit /\ c1.q.tree = c2.q.tree
              /\ c1.q.format = "tar" /\ c2.q.format = "tar"
              /\ c1.q.outputDir = "" /\ c2.q.outputDir = "" )
            => c1.out = c2.out

\* An ill-formed request, once past the field checks, has been rejected with the
\* validation error and has run no filesystem call and no subprocess.
C5_Rejected ==
    \A r \in Reqs :
        LET c == ctx[r]
        IN  (~WellFormed(c.q) /\ c.pc \notin {"idle", "preflight", "closed"}) =>
              /\ c.pc \in {"ret", "done"}
              /\ c.err \in ValidationErrors
              /\ c.trace = <<>> /\ c.touched = {} /\ c.fpath = <<>> /\ c.announced = <<>>
              /\ c.pc = "ret" => c.out = <<>>

\* The step that rejects it changes neither the cache nor any sink.
C5_NoEffect ==
    \A r \in Reqs :
        (~WellFormed(ctx[r].q) /\ ctx[r].pc = "preflight" /\ ctx'[r] # ctx[r]) =>
            /\ UNCHANGED <<ws, mirror, ref, files>>
            /\ ctx'[r].pc = "ret" /\ ctx'[r].out = <<>>

\* C5: a request with an empty repo, an empty branch or a format other than tar
\* and tgz is rejected with the validation error before any filesystem call or
\* subprocess, and the step that rejects it leaves the cache root, every workspace
\* and every sink as they were.
C5_ValidationFirst == [](C5_Rejected) /\ [][C5_NoEffect]_vars

\* C5 witness: a request with an unsupported format has been rejected while the
\* cache already holds a workspace.
C5_Witness ==
    \E r \in Reqs :
        /\ AtReturn(ctx[r]) /\ ctx[r].q.format = "zip" /\ ctx[r].q.repo # ""
        /\ ctx[r].q.branch # "" /\ ctx[r].err = "Format must be tar or tgz"
        /\ \E k \in Keys : ws[k] = "ready"

\* A delegate subprocess of the request is running against its workspace.
Running(c) ==
    c.pc \in {"initwait", "headfetching", "retryfetching"} \/ c.proc = "running"

\* C6: the workspace-touching delegate operations of two requests for the same
\* repository never overlap in time.
C6_NoInterleaving ==
    \A r1, r2 \in Reqs :
        (r1 # r2 /\ Running(ctx[r1]) /\ Running(ctx[r2])) => ctx[r1].gd # ctx[r2].gd

\* The entries a reader of a tar stream sees: header and data, up to the trailer.
RECURSIVE EntriesOf(_)
EntriesOf(b) ==
    IF b = <<>> \/ b[1].k = "end" THEN <<>>
    ELSE IF b[1].k = "hdr" /\ Len(b) >= 2 /\ b[2].k = "data"
         THEN <<Entry(b[1].name, b[1].size, b[1].mtime, b[2].data)>>
              \o EntriesOf(SubSeq(b, 3, Len(b)))
         ELSE <<Hole>>

\* The entries with the modification time at the epoch, all else unchanged.
AtEpoch(es) == [j \in DOMAIN es |-> [es[j] EXCEPT !.mtime = 0]]

\* C7: when sendDownstream succeeds, the entries it wrote are the entries the
\* archive subprocess produced, in order, with the same names, sizes and content,
\* and every modification time set to the epoch.
C7_NormalisedCopy ==
    \A r \in Reqs :
        LET c == ctx[r]
        IN  \A i \in DOMAIN c.sent :
              c.sent[i] = "nil" =>
                /\ EntriesOf(c.written[i]) # <<>>
                /\ \E t \in Times :
                     EntriesOf(c.written[i]) = AtEpoch(TreeEntries(c.commit, c.q.tree, t))
                /\ \A j \in DOMAIN c.written[i] :
                     c.written[i][j].k = "end" => j = Len(c.written[i])

\* C7 witness: a sendDownstream returned success after copying two entries.
C7_Witness ==
    \E r \in Reqs :
        /\ AtReturn(ctx[r]) /\ ctx[r].sent # <<>>
        /\ ctx[r].sent[Len(ctx[r].sent)] = "nil"
        /\ Len(EntriesOf(ctx[r].written[Len(ctx[r].sent)])) = 2

\* C8: with an output directory, archive bytes go only to the file
\* <outputDir>/<commit>.<format> (the resolved commit) and never to the caller's
\* stream; without one, they go only to the stream and no file is created.
C8_OneSink ==
    \A r \in Reqs :
        LET c == ctx[r]
        IN  c.pc \notin {"idle", "closed"} =>
              /\ c.q.outputDir # "" =>
                   /\ c.out = <<>>
                   /\ c.touched \subseteq {<<c.q.outputDir, c.commit, c.q.format>>}
                   /\ c.touched # {} => c.commit # "" /\ c.fpath \in DOMAIN files
              /\ c.q.outputDir = "" =>
                   /\ c.touched \subseteq {<<"stream">>}
                   /\ c.fpath = <<>> /\ Count(c.trace, "create") = 0
                   /\ c.off = 0

\* C8 witness: one request wrote its file under the resolved commit's name while
\* another wrote its stream.
C8_Witness ==
    \E r1, r2 \in Reqs :
        /\ AtReturn(ctx[r1]) /\ ctx[r1].q.outputDir = "out" /\ ctx[r1].q.commit = ""
        /\ ctx[r1].touched = {<<"out", "c1", ctx[r1].q.format>>} /\ ctx[r1].err = "nil"
        /\ AtReturn(ctx[r2]) /\ ctx[r2].q.outputDir = ""
        /\ ctx[r2].touched = {<<"stream">>} /\ ctx[r2].err = "nil"

\* C9: a failed request's outcome identifies the phase that failed, and over HTTP
\* a fetch or archive failure is a bad gateway and a workspace failure an internal
\* error.
C9_FailureClasses ==
    /\ \A r1, r2 \in Reqs :
         ( /\ ctx[r1].pc = "done" /\ ctx[r2].pc = "done"
           /\ ctx[r1].err # "nil" /\ ctx[r1].err = ctx[r2].err
           /\ ctx[r1].q.via = ctx[r2].q.via /\ ctx[r1].status = ctx[r2].status )
         => ctx[r1].phase = ctx[r2].phase
    /\ \A r \in Reqs :
         (ctx[r].pc = "done" /\ ctx[r].q.via = "http") =>
            /\ ctx[r].phase \in {"fetch", "archive"} => ctx[r].status = 502
            /\ ctx[r].phase = "workspace" => ctx[r].status = 500

\* C10: FetchLatest returns nil only if every write and close on the sink path
\* succeeded.
C10_NoSwallowedError ==
    \A r \in Reqs :
        (AtReturn(ctx[r]) /\ ctx[r].err = "nil") => ~ctx[r].sinkFail

\* C11: whenever preflightAndInit has returned the workspace directory without
\* error (FetchLatest is about to resolve the tip or to open the sink), a
\* `git init --bare` on that directory has completed successfully.
C11_WorkspaceReady ==
    \A r \in Reqs :
        ctx[r].pc \in {"headfetch", "open"} => ws[ctx[r].gd] = "ready"

\* C12: `git init --bare` is run against one workspace directory at most once:
\* at most once by one request, never by two requests for the same repository,
\* and only by a request that found the directory missing and created it.
C12_InitOnce ==
    /\ \A r \in Reqs :
         /\ Count(ctx[r].trace, "init") <= 1
         /\ Before(ctx[r].trace, "mkdir", "init")
    /\ \A r1, r2 \in Reqs :
         (r1 # r2 /\ ctx[r1].gd # "" /\ ctx[r1].gd = ctx[r2].gd) =>
            ~(Count(ctx[r1].trace, "init") = 1 /\ Count(ctx[r2].trace, "init") = 1)

\* C13: a request that names a commit the mirror holds when the first archive
\* attempt starts runs no fetch, whatever its subtree. (Stated for behaviours
\* without environment faults.)
C13_FetchOnlyNewCommit ==
    \A r \in Reqs :
        LET c == ctx[r]
        IN  (c.q.commit # "" /\ Len(c.had) >= 1 /\ c.had[1] /\ faults = 0) =>
              Fetches(c) = 0

\* C14: when the first archive attempt of a request that names a commit has failed
\* and the fetch that follows fails, the request returns the fetch error with no
\* second archive attempt; a second attempt is only ever started after a fetch
\* that succeeded.
C14_RetryFetchTerminal ==
    \A r \in Reqs :
        LET c == ctx[r]
        IN  /\ Archives(c) = 2 => c.fetched = <<"nil">>
            /\ (c.q.commit # "" /\ Len(c.fetched) >= 1 /\ c.fetched[1] # "nil") =>
                 /\ Archives(c) = 1 /\ Len(c.sent) = 1 /\ c.sent[1] # "nil"
                 /\ c.pc \in {"gzclose", "fclose", "ret", "done"}
                 /\ c.err = c.fetched[1] /\ c.phase = "fetch"

\* C14 witness: the retry's fetch failed against an initialised mirror and the
\* request returned that error after one archive attempt.
C14_Witness ==
    \E r \in Reqs :
        LET c == ctx[r]
        IN  /\ AtReturn(c) /\ c.q.commit # "" /\ c.gd \in Keys /\ ws[c.gd] = "ready"
            /\ c.sent = <<"exit status 128">> /\ c.fetched = <<"exit status 128">>
            /\ c.trace = <<"stat", "archive", "fetch">> /\ c.err = "exit status 128"

\* The blocks are whole entries: each header is followed by a data block of
\* exactly the length the header declares.
WholeEntries(b) ==
    /\ Len(b) % 2 = 0
    /\ \A j \in DOMAIN b :
         IF j % 2 = 1 THEN b[j].k = "hdr" /\ b[j + 1].k = "data" /\ b[j + 1].size = b[j].size
         ELSE b[j].k = "data"

\* The blocks before the end-of-archive trailer.
SelectBody(b) == SelectSeq(b, LAMBDA x : x.k # "end")

\* C15: sendDownstream returns nil only if the archive subprocess was waited for
\* and exited with status zero, its whole output was consumed, and every entry
\* was written as a header followed by exactly its declared length of data; a
\* non-zero exit, a short read and a failed write each make it return an error.
C15_CompleteExport ==
    \A r \in Reqs :
        LET c == ctx[r]
        IN  /\ c.pc = "tarclose" =>
                 /\ c.sdErr = "nil" =>
                      /\ c.proc = "reaped" /\ c.procExit = 0 /\ c.procOut = <<>>
                      /\ c.tw = "ok" /\ c.had[c.attempt]
                      /\ WholeEntries(c.written[c.attempt])
                      /\ Len(c.written[c.attempt]) =
                           2 * Len(TreeEntries(c.commit, c.q.tree, CHOOSE t \in Times : TRUE))
                 /\ (c.procExit # 0 /\ c.proc = "reaped") => c.sdErr = "exit status 128"
                 /\ c.tw = "short" => c.sdErr = "unexpected EOF"
                 /\ c.tw = "err" => c.sdErr = "write error"
            /\ \A i \in DOMAIN c.sent :
                 c.sent[i] = "nil" =>
                    c.had[i] /\ WholeEntries(SelectBody(c.written[i]))
                             /\ SelectBody(c.written[i]) # <<>>

\* C15 witness: one sendDownstream is about to return nil after copying two whole
\* entries, another is about to return the error of a short read.
C15_Witness ==
    \E r1, r2 \in Reqs :
        /\ ctx[r1].pc = "tarclose" /\ ctx[r1].sdErr = "nil"
        /\ Len(ctx[r1].written[ctx[r1].attempt]) = 4
        /\ ctx[r2].pc = "tarclose" /\ ctx[r2].tw = "short" /\ ctx[r2].procExit # 0
        /\ ctx[r2].sdErr = "unexpected EOF"

\* C16: once sendDownstream has returned, the archive subprocess it started has
\* been waited for: outside sendDownstream no request has a subprocess of its own
\* that is started and not reaped.
C16_SubprocessReaped ==
    \A r \in Reqs :
        ctx[r].pc \notin {"writehdr", "copy", "tarclose"} => ctx[r].proc # "running"

\* The request is in, or has failed in, a phase before the sink is opened:
\* validation, the workspace, or the resolution of the tip.
BeforeSink(c) ==
    \/ c.pc \in {"preflight", "stat", "mkdir", "init", "initwait",
                 "headfetch", "headfetching", "revparse", "open"}
    \/ /\ c.pc \in {"ret", "done"}
       /\ c.phase \in {"validation", "workspace"} \/ (c.phase = "fetch" /\ c.attempt = 0)

\* C17: a request creates its output file and interposes gzip only once validation
\* and the workspace step have passed and its commit is known (supplied, or
\* resolved by a getHeadCommit that succeeded); one that is in or fails in an
\* earlier phase has created no file and written nothing but the caller's error
\* text to the stream.
C17_SinkAfterCommit ==
    \A r \in Reqs :
        LET c == ctx[r]
        IN  /\ BeforeSink(c) =>
                 /\ Count(c.trace, "create") = 0 /\ c.fpath = <<>> /\ ~c.gzOpen
                 /\ c.touched = {} /\ c.announced = <<>> /\ c.off = 0 /\ c.gz = <<>>
                 /\ \A i \in DOMAIN c.out : c.out[i].k = "text"
                 /\ c.pc # "done" => c.out = <<>>
            /\ (c.gzOpen \/ c.fpath # <<>> \/ c.touched # {} \/ Count(c.trace, "create") > 0) =>
                 /\ WellFormed(c.q) /\ c.gd = Sha256Hex(c.q.repo) /\ c.commit # ""
                 /\ Before(c.trace, "stat", "create")
                 /\ c.q.commit = "" =>
                      /\ c.haveFetched /\ c.fetched = <<"nil">>
                      /\ Before(c.trace, "revparse", "create")

\* C17 witness: a request for a file, without a commit, failed to resolve the tip
\* while another request's output file exists; it created none.
C17_Witness ==
    \E r \in Reqs :
        LET c == ctx[r]
        IN  /\ AtReturn(c) /\ c.q.outputDir = "out" /\ c.q.commit = "" /\ WellFormed(c.q)
            /\ c.phase = "fetch" /\ c.err = "exit status 128"
            /\ c.trace = <<"stat", "fetch">> /\ c.fpath = <<>>
            /\ DOMAIN files # {}

\* The state of the orchestration state machine a frame is in.
StateOf(c) ==
    CASE c.pc \in {"idle", "closed"} -> "None"
      [] c.pc \in {"preflight", "stat", "mkdir", "init", "initwait"} -> "Init"
      [] c.pc \in {"headfetch", "headfetching", "revparse"} -> "WorkspaceReady"
      [] c.pc = "open" \/ (c.pc = "archive" /\ c.attempt = 0) -> "CommitKnown"
      [] c.pc \in {"writehdr", "copy", "tarclose"} /\ c.attempt = 1 -> "ArchiveAttempted"
      [] c.pc \in {"retryfetch", "retryfetching"} -> "RetryFetch"
      [] c.pc \in {"archive", "writehdr", "copy", "tarclose"} -> "ArchiveRetried"
      [] c.err = "nil" -> "Done"
      [] OTHER -> "Failed"

\* The transitions of the state machine. A request that names a commit passes
\* WorkspaceReady without a step of its own, and an archive attempt whose
\* subprocess cannot be started is over within the step that makes it.
Transition(c, d) ==
    LET a == StateOf(c)
        b == StateOf(d)
    IN  \/ a = b
        \/ a = "None" /\ b = "Init"
        \/ a = "Init" /\ b = "WorkspaceReady" /\ d.q.commit = ""
        \/ a = "Init" /\ b = "CommitKnown" /\ d.q.commit # ""
        \/ a = "WorkspaceReady" /\ b = "CommitKnown"
        \/ a = "CommitKnown" /\ b = "ArchiveAttempted"
        \/ a = "CommitKnown" /\ b = "RetryFetch" /\ d.attempt = 1 /\ c.attempt = 0
        \/ a = "ArchiveAttempted" /\ b \in {"Done", "RetryFetch"}
        \/ a = "RetryFetch" /\ b = "ArchiveRetried" /\ d.fetched = <<"nil">>
        \/ a = "ArchiveRetried" /\ b = "Done"
        \/ a \in {"Init", "WorkspaceReady", "CommitKnown", "ArchiveAttempted",
                  "RetryFetch", "ArchiveRetried"} /\ b = "Failed"
        \/ a \in {"Done", "Failed"} /\ b = "None"

C18_Conforms == \A r \in Reqs : Transition(ctx[r], ctx'[r])

C18_Bounded ==
    \A r \in Reqs :
        /\ Fetches(ctx[r]) <= 1 /\ Len(ctx[r].fetched) <= 1
        /\ Archives(ctx[r]) <= 2 /\ Len(ctx[r].sent) <= 2 /\ ctx[r].attempt <= 2
        /\ StateOf(ctx[r]) = "RetryFetch" => ~ctx[r].haveFetched

C18_Terminates ==
    \A r \in Reqs : (ctx[r].pc = "preflight") ~> (ctx[r].pc = "ret")

\* C18: every request moves through Init, WorkspaceReady, CommitKnown,
\* ArchiveAttempted and then Done, or a terminal failure, or RetryFetch,
\* ArchiveRetried and Done or Failed; it runs at most one fetchUpstream and at
\* most two sendDownstream; and, when every call and subprocess eventually
\* returns, FetchLatest eventually returns.
C18_StateMachine == [](C18_Bounded) /\ [][C18_Conforms]_vars /\ C18_Terminates

\* C18 witness: a request has gone through RetryFetch and ArchiveRetried and
\* returned the failure of its second attempt.
C18_Witness ==
    \E r \in Reqs :
        /\ AtReturn(ctx[r]) /\ StateOf(ctx[r]) = "Failed"
        /\ ctx[r].trace = <<"stat", "archive", "fetch", "archive">>
        /\ Len(ctx[r].sent) = 2 /\ ctx[r].err = ctx[r].sent[2]

\* The order in which a workspace comes into being.
Stage(w) == CASE w = "absent" -> 0 [] w = "dir" -> 1 [] OTHER -> 2

\* The directory a request works in is the one named by the digest of its
\* repository identifier, and distinct identifiers have distinct directories.
C19_Keyed ==
    /\ \A x, y \in Repos : Sha256Hex(x) = Sha256Hex(y) => x = y
    /\ \A r \in Reqs :
         ctx[r].pc \notin {"idle", "preflight", "closed"} /\ WellFormed(ctx[r].q) =>
            ctx[r].gd = Sha256Hex(ctx[r].q.repo) /\ ctx[r].gd \in Keys

\* A step changes a workspace only if it is a step of a request for the
\* repository that workspace belongs to, and then the workspace is not removed
\* and its mirror loses nothing.
C19_Frame ==
    \A k \in Keys :
        /\ Stage(ws[k]) <= Stage(ws'[k]) /\ mirror[k] \subseteq mirror'[k]
        /\ (ws'[k] # ws[k] \/ mirror'[k] # mirror[k] \/ ref'[k] # ref[k]) =>
              \E r \in Reqs :
                 /\ ctx'[r] # ctx[r] /\ k = Sha256Hex(ctx[r].q.repo) /\ ctx[r].gd = k
                 /\ \A o \in Reqs \ {r} : ctx'[o] = ctx[o]

\* C19: a request for repository x works only in the directory named by the hex
\* sha256 of x; the same identifier always gives the same directory and distinct
\* identifiers distinct ones; a request leaves every other workspace unchanged,
\* and no workspace is ever deleted.
C19_Isolation == [](C19_Keyed) /\ [][C19_Frame]_vars

\* C19 witness: a request for r2 has initialised its own workspace while the
\* workspace of r1, filled by an earlier request, is as that request left it.
C19_Witness ==
    \E r \in Reqs :
        /\ ctx[r].q.repo = "r2" /\ ctx[r].pc = "headfetch"
        /\ ctx[r].trace = <<"stat", "mkdir", "init">>
        /\ ws[Sha256Hex("r2")] = "ready" /\ mirror[Sha256Hex("r2")] = {}
        /\ ws[Sha256Hex("r1")] = "ready" /\ mirror[Sha256Hex("r1")] = {"c1"}
        /\ ref[Sha256Hex("r1")] = "c1"

\* No call, subprocess start or sink write of the request failed for a reason
\* outside the cache (these are the only results such a failure produces).
Undisturbed(c) ==
    /\ ~c.sinkFail /\ c.err \notin {"stat: error", "mkdir: error", "open: error"}
    /\ \A i \in DOMAIN c.sent :
         c.sent[i] \notin {"fork/exec error", "unexpected EOF", "write error"}

\* A request that has succeeded leaves its commit in the initialised mirror of
\* its repository, and the branch ref of a mirror points at a commit it holds.
C20_Warmed ==
    /\ \A r \in Reqs :
         Succeeded(ctx[r]) =>
            /\ ws[ctx[r].gd] = "ready" /\ ctx[r].commit \in mirror[ctx[r].gd]
            /\ ValidTree(ctx[r].q.tree)
    /\ \A k \in Keys : ref[k] # "" => ws[k] = "ready" /\ ref[k] \in mirror[k]

\* No step of any request, successful or not, takes a commit out of a mirror or
\* makes an initialised workspace uninitialised.
C20_StaysWarm ==
    \A k \in Keys :
        /\ ws[k] = "ready" => ws'[k] = "ready"
        /\ mirror[k] \subseteq mirror'[k]

\* A request that names a commit its mirror holds and a subtree the commit has,
\* and that is not disturbed from outside, goes from os.Stat straight to one
\* archive attempt, which succeeds; it runs no init and no fetch.
C20_ServedFromCache ==
    \A r \in Reqs :
        LET c == ctx[r]
        IN  ( /\ c.q.commit # "" /\ ValidTree(c.q.tree) /\ Undisturbed(c)
              /\ Len(c.had) >= 1 /\ c.had[1] ) =>
               /\ Fetches(c) = 0 /\ Archives(c) = 1 /\ Count(c.trace, "init") = 0
               /\ Len(c.sent) = 1 => c.sent[1] = "nil"
               /\ c.pc \in {"ret", "done"} => c.err = "nil"

\* C20: in a sequential history, once a request for repository R has succeeded
\* with commit C, the mirror of R holds C from then on, whatever requests run
\* later; and every later request for R that names C and the same subtree (and
\* that no failure outside the cache disturbs) succeeds on its first archive
\* attempt without a fetch.
C20_WarmUp == [](C20_Warmed /\ C20_ServedFromCache) /\ [][C20_StaysWarm]_vars

\* C20 witness: after earlier requests, among them one for another repository
\* and one that wrote a file, a request naming a commit an earlier fetch brought
\* in has succeeded with one archive attempt and nothing else.
C20_Witness ==
    /\ ctx[Main].pc = "ret" /\ ctx[Main].q.repo = "r1" /\ ctx[Main].q.commit = "c1"
    /\ ctx[Main].trace = <<"stat", "archive">> /\ ctx[Main].sent = <<"nil">>
    /\ ctx[Main].err = "nil" /\ ctx[Main].had = <<TRUE>>
    /\ ws[Sha256Hex("r2")] = "ready" /\ DOMAIN files # {}

====
